---- MODULE Spec2Model ----
(***************************************************************************)
(* Canvas state orchestrator of the live image generator                   *)
(* (ImageGeneratorPage and the useDebounceWithReset hook), with the        *)
(* generation service (falService) as the environment that answers the     *)
(* asynchronous calls.                                                     *)
(*                                                                         *)
(* React state (useState) and refs (useRef) are the variables.  A handler  *)
(* runs to its first await as one step; the continuation after the await   *)
(* is another step.  Effects (useEffect) run after the render that changed *)
(* their dependencies and before any other event is handled.               *)
(***************************************************************************)
EXTENDS Integers, Sequences, FiniteSets, TLC

VARIABLES
    images,             \* useState<ImageInfo[]>            (part_002:33)
    selectedImageId,    \* useState<string | null>          (part_002:34)
    prompt,             \* useState<string>                 (part_002:32)
    debouncedPrompt,    \* debouncedValue of the hook       (part_000:49)
    timeoutRef,         \* pending debounce timer           (part_000:50)
    error,              \* useState<string | null>          (part_002:35)
    isRegeneratingRef,  \* useRef(false)                    (part_002:40)
    regenCalls,         \* generateImage calls awaited at part_002:144
    varCalls,           \* generateImageVariations calls awaited at part_002:282
    effectDeps,         \* [debouncedPrompt, selectedImageId] of the last run of the effect at part_002:186
    nextUuid,           \* number of the next id uuidv4() mints
    clock,              \* Date.now(), in milliseconds since mount
    gestures,           \* number of user gestures handled so far
    promptEdited,       \* history: the input was edited since the prompt was last reset
    savedImages,        \* the catalog shown in the dropdown
    isLoadingSavedImages,
    isImageDropdownOpen,
    saveCalls,          \* handleSaveImage calls awaiting saveImageBlob
    loadCalls,          \* loadSavedImagesForDropdown calls awaiting fetchSavedImages
    store,              \* the rows of the images table marked saved
    container,          \* containerRef.current: offsetWidth, offsetHeight as laid out, style.minHeight
    dupCalls,           \* handleDuplicateImage calls awaiting generateUuid at part_002:354
    lastOp              \* history: the step taken last, with what it was called with

libraryVars == <<savedImages, isLoadingSavedImages, isImageDropdownOpen, saveCalls, loadCalls, store>>

layoutVars == <<container, dupCalls>>

vars == <<images, selectedImageId, prompt, debouncedPrompt, timeoutRef, error,
          isRegeneratingRef, regenCalls, varCalls, effectDeps, nextUuid, clock, gestures,
          promptEdited, libraryVars, layoutVars, lastOp>>

----------------------------------------------------------------------------
\* Program constants

IMAGE_SIZE == 150
GRID_GAP == 20
DUPLICATION_OFFSET == 25
HEADER_HEIGHT == 80
INITIAL_PLACEHOLDER_ID == <<"initial-placeholder">>

\* Bounds of the model

MaxUuid == 5            \* ids the id service mints in one run
MaxImages == 5          \* entities on the canvas
MaxGestures == 4        \* user gestures (click, typing, button) in one run
MaxClock == 1           \* last millisecond Date.now() reaches
MaxVariants == 4        \* most prompt variants the augmentation step returns
MaxFanOutImages == 9    \* entities on the canvas when the variations button is pressed twice
HalfContainerWidth == 200
HalfContainerHeight == 200

\* Values

NoId == <<"null">>                  \* selectedImageId === null, parentId undefined
EmptyId == <<"">>                   \* id: '' of an error result
Uuid(n) == <<"uuid", n>>
NoUrl == <<>>                       \* imageUrl undefined, src ''
Url(n) == <<"url", n>>
NoTimer == <<>>
Null == "null"                      \* error === null

TypedPrompts == {" ", "a", "b"}     \* what the user types; " " is blank
VariantPrompt == "v"                \* a prompt variant of the augmentation step
ThrownMessages == {"", "Failed to fetch"}

Max(a, b) == IF a > b THEN a ELSE b
Min(a, b) == IF a < b THEN a ELSE b

\* container.offsetWidth
ContainerWidth == container.width

\* container.offsetHeight: the height the page layout gives the canvas, or
\* the min-height set on it when that is more
ContainerHeight == Max(container.height, container.minHeight)

\* String.prototype.trim on the prompts of the model
Trim(s) == IF s \in {"", " "} THEN "" ELSE s

\* a || b on strings
OrElse(a, b) == IF a = "" THEN b ELSE a

----------------------------------------------------------------------------
\* Collection helpers

\* Array.prototype.findIndex, 1-based; 0 for -1
FindIndex(imgs, id) ==
    IF \E i \in DOMAIN imgs : imgs[i].id = id
    THEN CHOOSE i \in DOMAIN imgs :
            /\ imgs[i].id = id
            /\ \A j \in 1..(i - 1) : imgs[j].id # id
    ELSE 0

HasId(imgs, id) == FindIndex(imgs, id) # 0

\* Array.prototype.filter(img => keep(img))
RECURSIVE FilterOut(_, _)
FilterOut(imgs, ids) ==
    IF imgs = <<>> THEN <<>>
    ELSE IF Head(imgs).id \in ids
         THEN FilterOut(Tail(imgs), ids)
         ELSE <<Head(imgs)>> \o FilterOut(Tail(imgs), ids)

\* Array.prototype.splice(k, 1)
RemoveAt(imgs, k) == SubSeq(imgs, 1, k - 1) \o SubSeq(imgs, k + 1, Len(imgs))

\* prevImages.map(img => img.id === id ? {...img, isLoading: v} : img)
SetLoading(imgs, id, v) ==
    [i \in DOMAIN imgs |->
        IF imgs[i].id = id THEN [imgs[i] EXCEPT !.isLoading = v] ELSE imgs[i]]

clampPositionToBounds(position, width, height, itemSize) ==
    LET maxX == Max(0, width - itemSize)
        maxY == Max(0, height - itemSize)
    IN  [x |-> Max(0, Min(position.x, maxX)),
         y |-> Max(0, Min(position.y, maxY))]

\* container.scrollHeight: the canvas and the entities drawn below its lower edge
ContainerScrollHeight ==
    LET Bottom[i \in 0..Len(images)] ==
            IF i = 0 THEN ContainerHeight
            ELSE Max(Bottom[i - 1], images[i].position.y + IMAGE_SIZE)
    IN  Bottom[Len(images)]

\* const effectiveHeight = Math.max(container.offsetHeight, containerScrollHeight)
EffectiveHeight == Max(ContainerHeight, ContainerScrollHeight)

CenterPosition ==
    [x |-> Max(0, (ContainerWidth - IMAGE_SIZE) \div 2),
     y |-> Max(0, (ContainerHeight - IMAGE_SIZE) \div 2)]

----------------------------------------------------------------------------
\* The debounce hook

\* The live prompt set without the reset of the debounced value
SetPrompt_NoReset(newValue) ==
    /\ prompt' = newValue
    /\ timeoutRef' = IF newValue # prompt THEN <<newValue>> ELSE timeoutRef
    /\ UNCHANGED debouncedPrompt

\* resetDebouncedValue(newValue) followed by the hook's effect, which starts a
\* timer for the new value when the value changed in this render
SetPromptAndResetDebounce(newValue) ==
    /\ prompt' = newValue
    /\ debouncedPrompt' = newValue
    /\ timeoutRef' = IF newValue # prompt THEN <<newValue>> ELSE NoTimer

----------------------------------------------------------------------------
\* The canvas at construction
CanvasInit ==
    /\ images = <<>>
    /\ selectedImageId = NoId
    /\ prompt = ""
    /\ debouncedPrompt = ""
    /\ timeoutRef = <<"">>
    /\ error = Null
    /\ isRegeneratingRef = FALSE
    /\ regenCalls = <<>>
    /\ varCalls = <<>>
    /\ effectDeps = <<"", NoId>>
    /\ nextUuid = 1
    /\ clock = 0
    /\ gestures = 0
    /\ promptEdited = FALSE
    /\ lastOp = [op |-> "mount"]

\* The catalog at construction: empty, with the load of the mount effect in
\* flight.  A call in flight carries the rows its query sees when it starts
\* and, as history, whether a call started after it has already resolved.
LibraryInit(rows) ==
    /\ savedImages = {}
    /\ isLoadingSavedImages = TRUE
    /\ isImageDropdownOpen = FALSE
    /\ saveCalls = <<>>
    /\ loadCalls = << [atStart |-> rows, superseded |-> FALSE] >>
    /\ store = rows

\* The canvas element at construction, of the given size, and no duplication
\* in flight
LayoutInit(size) ==
    /\ container = [width |-> size.width, height |-> size.height, minHeight |-> 0]
    /\ dupCalls = <<>>

DefaultSize == [width |-> 2 * HalfContainerWidth, height |-> 2 * HalfContainerHeight]

Init ==
    /\ CanvasInit
    /\ LibraryInit({})
    /\ LayoutInit(DefaultSize)

\* The user acts: one more gesture
Gesture ==
    /\ gestures < MaxGestures
    /\ gestures' = gestures + 1

\* No effect is waiting to run
EffectsIdle ==
    /\ Len(images) > 0
    /\ effectDeps = <<debouncedPrompt, selectedImageId>>

\* The effect inserting the placeholder without selecting it
InitialPlaceholderEffect_NotSelected ==
    /\ Len(images) = 0
    /\ SetPromptAndResetDebounce("")
    /\ images' = << [id |-> INITIAL_PLACEHOLDER_ID, src |-> NoUrl, prompt |-> "",
                     position |-> CenterPosition, parentId |-> NoId,
                     isLoading |-> FALSE, isPlaceholder |-> TRUE] >>
    /\ UNCHANGED selectedImageId
    /\ lastOp' = [op |-> "initialPlaceholder"]
    /\ UNCHANGED <<gestures, error, isRegeneratingRef, regenCalls, varCalls, effectDeps, nextUuid, clock>>
    /\ promptEdited' = FALSE
    /\ UNCHANGED <<libraryVars, layoutVars>>

\* Effect on [images.length]: the initial placeholder
InitialPlaceholderEffect ==
    /\ Len(images) = 0
    /\ SetPromptAndResetDebounce("")
    /\ images' = << [id |-> INITIAL_PLACEHOLDER_ID, src |-> NoUrl, prompt |-> "",
                     position |-> CenterPosition, parentId |-> NoId,
                     isLoading |-> FALSE, isPlaceholder |-> TRUE] >>
    /\ selectedImageId' = INITIAL_PLACEHOLDER_ID
    /\ lastOp' = [op |-> "initialPlaceholder"]
    /\ UNCHANGED <<gestures, error, isRegeneratingRef, regenCalls, varCalls, effectDeps, nextUuid, clock>>
    /\ promptEdited' = FALSE
    /\ UNCHANGED <<libraryVars, layoutVars>>

----------------------------------------------------------------------------
\* The generation service (falService.ts), as the set of answers it can give

\* generateImage(prompt, imageSize): the result of the uuid numbered n
\* "ok": the service returned a URL; "noUrl": it answered without one;
\* "error": it threw and the catch block answered
ResultKinds == {"ok", "noUrl", "error"}

ImageResult(kind, p, n) ==
    CASE kind = "ok"    -> [id |-> Uuid(n), imageUrl |-> Url(n), promptUsed |-> p, error |-> ""]
      [] kind = "noUrl" -> [id |-> Uuid(n), imageUrl |-> NoUrl, promptUsed |-> p, error |-> ""]
      [] kind = "error" -> [id |-> EmptyId, imageUrl |-> NoUrl, promptUsed |-> p,
                            error |-> "Unknown error during image generation."]

generateImage(p, n) == {ImageResult(kind, p, n) : kind \in ResultKinds}

\* The uuids minted for the results before result i: one for each result
\* that carries an id
MintedBefore(kinds, i) == Cardinality({j \in 1..(i - 1) : kinds[j] # "error"})

\* The capability answering an augmentation failure with one error result
\* per placeholder
generateImageVariations_FourErrors(originalPrompt, n) ==
    { [i \in 1..4 |-> [id |-> EmptyId, imageUrl |-> NoUrl, promptUsed |-> originalPrompt,
                       error |-> "Prompt Variation Generation failed"]] }
    \cup
    { [i \in DOMAIN kinds |-> ImageResult(kinds[i], VariantPrompt, n + MintedBefore(kinds, i))] :
        kinds \in UNION {[1..len -> ResultKinds] : len \in 1..MaxVariants} }

\* generateImageVariations(originalPrompt, parentId, imageSize): one error result
\* when the augmentation step failed, else one result per prompt variant
generateImageVariations(originalPrompt, n) ==
    { << [id |-> EmptyId, imageUrl |-> NoUrl, promptUsed |-> originalPrompt,
          error |-> "Prompt Variation Generation failed"] >> }
    \cup
    { [i \in DOMAIN kinds |-> ImageResult(kinds[i], VariantPrompt, n + MintedBefore(kinds, i))] :
        kinds \in UNION {[1..len -> ResultKinds] : len \in 1..MaxVariants} }

\* The uuids a list of results holds
UuidsUsed(results) == Cardinality({i \in DOMAIN results : results[i].id # EmptyId})

\* A result the caller can use
Usable(result) == result.imageUrl # NoUrl

----------------------------------------------------------------------------
\* Regeneration (handleRegenerateSelectedImage)

\* The handler without the assignment isRegeneratingRef.current = true
handleRegenerate_LatchNotSet(imageId, newPrompt) ==
    IF isRegeneratingRef
    THEN UNCHANGED <<isRegeneratingRef, error, images, regenCalls>>
    ELSE /\ UNCHANGED isRegeneratingRef
         /\ error' = Null
         /\ images' = SetLoading(images, imageId, TRUE)
         /\ regenCalls' = Append(regenCalls, [imageId |-> imageId, newPrompt |-> newPrompt])

\* The handler up to its await
handleRegenerateSelectedImage(imageId, newPrompt) ==
    IF isRegeneratingRef
    THEN UNCHANGED <<isRegeneratingRef, error, images, regenCalls>>
    ELSE /\ isRegeneratingRef' = TRUE
         /\ error' = Null
         /\ images' = SetLoading(images, imageId, TRUE)
         /\ regenCalls' = Append(regenCalls, [imageId |-> imageId, newPrompt |-> newPrompt])

\* The condition with debouncedPrompt in place of debouncedPrompt.trim()
ShouldRegenerate_NoTrim ==
    /\ selectedImageId \notin {NoId, EmptyId}
    /\ debouncedPrompt # ""
    /\ ~isRegeneratingRef
    /\ HasId(images, selectedImageId)
    /\ images[FindIndex(images, selectedImageId)].prompt # debouncedPrompt

\* The condition without the comparison with the stored prompt
ShouldRegenerate_NoPromptCheck ==
    /\ selectedImageId \notin {NoId, EmptyId}
    /\ Trim(debouncedPrompt) # ""
    /\ ~isRegeneratingRef
    /\ HasId(images, selectedImageId)

\* The condition of the effect on [debouncedPrompt, selectedImageId]
ShouldRegenerate ==
    /\ selectedImageId \notin {NoId, EmptyId}
    /\ Trim(debouncedPrompt) # ""
    /\ ~isRegeneratingRef
    /\ HasId(images, selectedImageId)
    /\ images[FindIndex(images, selectedImageId)].prompt # debouncedPrompt

RegenerationEffect ==
    /\ Len(images) > 0
    /\ effectDeps # <<debouncedPrompt, selectedImageId>>
    /\ effectDeps' = <<debouncedPrompt, selectedImageId>>
    /\ IF ShouldRegenerate
       THEN /\ handleRegenerateSelectedImage(selectedImageId, debouncedPrompt)
            /\ lastOp' = [op |-> "regenerate"]
       ELSE /\ UNCHANGED <<isRegeneratingRef, error, images, regenCalls>>
            /\ lastOp' = [op |-> "effectSkipped"]
    /\ UNCHANGED <<gestures, selectedImageId, prompt, debouncedPrompt, timeoutRef, varCalls, nextUuid, clock>>
    /\ UNCHANGED promptEdited
    /\ UNCHANGED <<libraryVars, layoutVars>>

\* The success branch without setSelectedImageId(result.id)
RegenerationSucceeded_NoReselect(call, result) ==
    /\ images' = [i \in DOMAIN images |->
                    IF images[i].id = call.imageId
                    THEN [images[i] EXCEPT !.id = result.id,
                                           !.src = result.imageUrl,
                                           !.prompt = OrElse(result.promptUsed, call.newPrompt),
                                           !.isLoading = FALSE,
                                           !.isPlaceholder = FALSE]
                    ELSE images[i]]
    /\ UNCHANGED <<selectedImageId, error>>

\* if (result.imageUrl) { ... }
RegenerationSucceeded(call, result) ==
    /\ images' = [i \in DOMAIN images |->
                    IF images[i].id = call.imageId
                    THEN [images[i] EXCEPT !.id = result.id,
                                           !.src = result.imageUrl,
                                           !.prompt = OrElse(result.promptUsed, call.newPrompt),
                                           !.isLoading = FALSE,
                                           !.isPlaceholder = FALSE]
                    ELSE images[i]]
    /\ selectedImageId' = result.id
    /\ UNCHANGED error

\* else { ... }
RegenerationFailed(call) ==
    /\ error' = "An error occurred when generating images."
    /\ images' = SetLoading(images, call.imageId, FALSE)
    /\ UNCHANGED selectedImageId

\* The catch block without the setImages that clears isLoading
RegenerationThrew_StillLoading(call, message) ==
    /\ error' = OrElse(message, "An error occurred when generating images")
    /\ UNCHANGED <<images, selectedImageId>>

\* catch (err) { ... }
RegenerationThrew(call, message) ==
    /\ error' = OrElse(message, "An error occurred when generating images")
    /\ images' = SetLoading(images, call.imageId, FALSE)
    /\ UNCHANGED selectedImageId

\* A finally block that leaves the latch as it is
RegenerationFinally_LatchKept ==
    UNCHANGED isRegeneratingRef

\* finally { ... }
RegenerationFinally ==
    isRegeneratingRef' = FALSE

\* The await of generateImage resolves
RegenerationResolves ==
    /\ EffectsIdle
    /\ \E k \in DOMAIN regenCalls :
        \E result \in generateImage(regenCalls[k].newPrompt, nextUuid) :
            /\ nextUuid + UuidsUsed(<<result>>) - 1 <= MaxUuid
            /\ nextUuid' = nextUuid + UuidsUsed(<<result>>)
            /\ IF Usable(result)
               THEN /\ RegenerationSucceeded(regenCalls[k], result)
                    /\ lastOp' = [op |-> "regenerated", call |-> regenCalls[k], result |-> result]
               ELSE /\ RegenerationFailed(regenCalls[k])
                    /\ lastOp' = [op |-> "regenerationFailed", call |-> regenCalls[k], result |-> result]
            /\ RegenerationFinally
            /\ regenCalls' = RemoveAt(regenCalls, k)
    /\ UNCHANGED <<gestures, prompt, debouncedPrompt, timeoutRef, varCalls, effectDeps, clock>>
    /\ UNCHANGED promptEdited
    /\ UNCHANGED <<libraryVars, layoutVars>>

\* The await of generateImage rejects
RegenerationRejects ==
    /\ EffectsIdle
    /\ \E k \in DOMAIN regenCalls :
        \E message \in ThrownMessages :
            /\ RegenerationThrew(regenCalls[k], message)
            /\ RegenerationFinally
            /\ regenCalls' = RemoveAt(regenCalls, k)
            /\ lastOp' = [op |-> "regenerationThrew", call |-> regenCalls[k]]
    /\ UNCHANGED <<gestures, prompt, debouncedPrompt, timeoutRef, varCalls, effectDeps, nextUuid, clock>>
    /\ UNCHANGED promptEdited
    /\ UNCHANGED <<libraryVars, layoutVars>>

----------------------------------------------------------------------------
\* Selection and prompt input

\* The click handler without the test of the latch
handleSelectImage_NoLatchCheck(id) ==
    /\ EffectsIdle
    /\ Gesture
    /\ selectedImageId' = id
    /\ SetPromptAndResetDebounce(
         IF HasId(images, id) THEN images[FindIndex(images, id)].prompt ELSE "")
    /\ lastOp' = [op |-> "select"]
    /\ UNCHANGED <<images, error, isRegeneratingRef, regenCalls, varCalls, effectDeps, nextUuid, clock>>
    /\ promptEdited' = FALSE
    /\ UNCHANGED <<libraryVars, layoutVars>>

handleSelectImage(id) ==
    /\ EffectsIdle
    /\ Gesture
    /\ IF isRegeneratingRef
       THEN /\ UNCHANGED <<selectedImageId, prompt, debouncedPrompt, timeoutRef>>
            /\ lastOp' = [op |-> "selectIgnored"]
       ELSE /\ selectedImageId' = id
            /\ SetPromptAndResetDebounce(
                 IF HasId(images, id) THEN images[FindIndex(images, id)].prompt ELSE "")
            /\ lastOp' = [op |-> "select"]
    /\ UNCHANGED <<images, error, isRegeneratingRef, regenCalls, varCalls, effectDeps, nextUuid, clock>>
    /\ promptEdited' = (isRegeneratingRef /\ promptEdited)
    /\ UNCHANGED <<libraryVars, layoutVars>>

handleContainerClick ==
    /\ EffectsIdle
    /\ Gesture
    /\ selectedImageId' = NoId
    /\ SetPromptAndResetDebounce("")
    /\ lastOp' = [op |-> "deselect"]
    /\ UNCHANGED <<images, error, isRegeneratingRef, regenCalls, varCalls, effectDeps, nextUuid, clock>>
    /\ promptEdited' = FALSE
    /\ UNCHANGED <<libraryVars, layoutVars>>

\* The input handler writing the debounced prompt at once
handlePromptInputChange_NoDebounce(newPromptValue) ==
    /\ EffectsIdle
    /\ Gesture
    /\ selectedImageId # NoId
    /\ newPromptValue # prompt
    /\ prompt' = newPromptValue
    /\ timeoutRef' = <<newPromptValue>>
    /\ debouncedPrompt' = newPromptValue
    /\ lastOp' = [op |-> "type"]
    /\ UNCHANGED <<images, selectedImageId, error, isRegeneratingRef,
                   regenCalls, varCalls, effectDeps, nextUuid, clock>>
    /\ promptEdited' = TRUE
    /\ UNCHANGED <<libraryVars, layoutVars>>

\* The input is disabled while nothing is selected (isPromptInputDisabled)
handlePromptInputChange(newPromptValue) ==
    /\ EffectsIdle
    /\ Gesture
    /\ selectedImageId # NoId
    /\ newPromptValue # prompt
    /\ prompt' = newPromptValue
    /\ timeoutRef' = <<newPromptValue>>
    /\ lastOp' = [op |-> "type"]
    /\ UNCHANGED <<images, selectedImageId, debouncedPrompt, error, isRegeneratingRef,
                   regenCalls, varCalls, effectDeps, nextUuid, clock>>
    /\ promptEdited' = TRUE
    /\ UNCHANGED <<libraryVars, layoutVars>>

\* The timer of the debounce hook runs out
DebounceTimeout ==
    /\ EffectsIdle
    /\ timeoutRef # NoTimer
    /\ debouncedPrompt' = timeoutRef[1]
    /\ timeoutRef' = NoTimer
    /\ lastOp' = [op |-> "debounced"]
    /\ UNCHANGED <<gestures, images, selectedImageId, prompt, error, isRegeneratingRef,
                   regenCalls, varCalls, effectDeps, nextUuid, clock>>
    /\ UNCHANGED promptEdited
    /\ UNCHANGED <<libraryVars, layoutVars>>

\* The handler clearing the selection whatever entity is deleted
handleDeleteImage_AlwaysDeselects(id) ==
    /\ EffectsIdle
    /\ Gesture
    /\ images' = FilterOut(images, {id})
    /\ selectedImageId' = NoId
    /\ lastOp' = [op |-> "delete", id |-> id, found |-> HasId(images, id)]
    /\ UNCHANGED <<prompt, debouncedPrompt, timeoutRef, error, isRegeneratingRef,
                   regenCalls, varCalls, effectDeps, nextUuid, clock>>
    /\ UNCHANGED promptEdited
    /\ UNCHANGED <<libraryVars, layoutVars>>

handleDeleteImage(id) ==
    /\ EffectsIdle
    /\ Gesture
    /\ images' = FilterOut(images, {id})
    /\ selectedImageId' = IF selectedImageId = id THEN NoId ELSE selectedImageId
    /\ lastOp' = [op |-> "delete", id |-> id, found |-> HasId(images, id)]
    /\ UNCHANGED <<prompt, debouncedPrompt, timeoutRef, error, isRegeneratingRef,
                   regenCalls, varCalls, effectDeps, nextUuid, clock>>
    /\ UNCHANGED promptEdited
    /\ UNCHANGED <<libraryVars, layoutVars>>

----------------------------------------------------------------------------
\* Variations (handleGenerateVariations)

\* `${parentId}-placeholder-${index}-${Date.now()}`
PlaceholderId(parentId, index, now) == <<"placeholder", parentId, index, now>>

\* Above, below, left, right of the parent
placeholderPositions(parentPos) ==
    LET offset == IMAGE_SIZE + GRID_GAP
    IN  << [x |-> parentPos.x, y |-> parentPos.y - offset],
           [x |-> parentPos.x, y |-> parentPos.y + offset],
           [x |-> parentPos.x - offset, y |-> parentPos.y],
           [x |-> parentPos.x + offset, y |-> parentPos.y] >>

\* The placeholders inserted without their loading flag
placeholderImages_NotLoading(parentImage, parentId, parentPrompt, now) ==
    [i \in 1..4 |->
        [id |-> PlaceholderId(parentId, i - 1, now),
         src |-> NoUrl,
         prompt |-> "Loading variation for: " \o parentPrompt,
         position |-> clampPositionToBounds(placeholderPositions(parentImage.position)[i],
                                            ContainerWidth, EffectiveHeight, IMAGE_SIZE),
         parentId |-> parentId,
         isPlaceholder |-> TRUE,
         isLoading |-> FALSE]]

placeholderImages(parentImage, parentId, parentPrompt, now) ==
    [i \in 1..4 |->
        [id |-> PlaceholderId(parentId, i - 1, now),
         src |-> NoUrl,
         prompt |-> "Loading variation for: " \o parentPrompt,
         position |-> clampPositionToBounds(placeholderPositions(parentImage.position)[i],
                                            ContainerWidth, EffectiveHeight, IMAGE_SIZE),
         parentId |-> parentId,
         isPlaceholder |-> TRUE,
         isLoading |-> TRUE]]

\* The handler up to its await, on a canvas with room for maxImages entities
GenerateVariationsWithin(parentId, parentPrompt, maxImages) ==
    /\ EffectsIdle
    /\ Gesture
    /\ IF ~HasId(images, parentId)
       THEN /\ error' = "Could not find the parent image."
            /\ lastOp' = [op |-> "variationsNoParent", parentId |-> parentId]
            /\ UNCHANGED <<images, varCalls, clock>>
       ELSE /\ Len(images) + 4 <= maxImages
            /\ \E now \in clock..Min(clock + 1, MaxClock) :
                LET placeholders == placeholderImages(images[FindIndex(images, parentId)],
                                                      parentId, parentPrompt, now)
                IN  /\ clock' = now
                    /\ images' = images \o placeholders
                    /\ varCalls' = Append(varCalls,
                          [placeholderIds |-> [i \in 1..4 |-> placeholders[i].id],
                           parentPrompt |-> parentPrompt])
            /\ error' = Null
            /\ lastOp' = [op |-> "variations", parentId |-> parentId]
    /\ UNCHANGED <<selectedImageId, prompt, debouncedPrompt, timeoutRef, isRegeneratingRef,
                   regenCalls, effectDeps, nextUuid>>
    /\ UNCHANGED promptEdited
    /\ UNCHANGED <<libraryVars, layoutVars>>

handleGenerateVariations(parentId, parentPrompt) ==
    GenerateVariationsWithin(parentId, parentPrompt, MaxImages)

\* if (result.error || !result.id || !result.imageUrl)
VariantFailed(result) ==
    \/ result.error # ""
    \/ result.id = EmptyId
    \/ result.imageUrl = NoUrl

\* The body of results.forEach, adding the result as a new entity when its
\* placeholder is not found
ReconcileOne_Upsert(imgs, call, result, i) ==
    IF i > Len(call.placeholderIds) THEN imgs
    ELSE LET placeholderIndex == FindIndex(imgs, call.placeholderIds[i])
             entity == [id |-> result.id,
                        src |-> result.imageUrl,
                        prompt |-> OrElse(result.promptUsed, "Variant of: " \o call.parentPrompt),
                        position |-> CenterPosition,
                        parentId |-> NoId,
                        isLoading |-> FALSE,
                        isPlaceholder |-> FALSE]
         IN  IF VariantFailed(result)
             THEN (IF placeholderIndex = 0 THEN imgs ELSE RemoveAt(imgs, placeholderIndex))
             ELSE IF placeholderIndex = 0 THEN Append(imgs, entity)
             ELSE [imgs EXCEPT ![placeholderIndex] =
                      [entity EXCEPT !.position = imgs[placeholderIndex].position,
                                     !.parentId = imgs[placeholderIndex].parentId]]

\* The body of results.forEach for the result at index i (1-based)
ReconcileOne(imgs, call, result, i) ==
    IF i > Len(call.placeholderIds) THEN imgs
    ELSE LET placeholderIndex == FindIndex(imgs, call.placeholderIds[i])
         IN  IF placeholderIndex = 0 THEN imgs
             ELSE IF VariantFailed(result) THEN RemoveAt(imgs, placeholderIndex)
             ELSE [imgs EXCEPT ![placeholderIndex] =
                      [@ EXCEPT !.id = result.id,
                                !.src = result.imageUrl,
                                !.prompt = OrElse(result.promptUsed,
                                                  "Variant of: " \o call.parentPrompt),
                                !.isLoading = FALSE,
                                !.isPlaceholder = FALSE]]

\* The updater passed to setImages: results.forEach over results[1..n]
RECURSIVE Reconcile(_, _, _, _)
Reconcile(imgs, call, results, n) ==
    IF n = 0 THEN imgs
    ELSE ReconcileOne(Reconcile(imgs, call, results, n - 1), call, results[n], n)

\* updateOccurred once the updater has run
UpdateOccurred(imgs, call, results) ==
    \E i \in DOMAIN results :
        /\ i <= Len(call.placeholderIds)
        /\ HasId(Reconcile(imgs, call, results, i - 1), call.placeholderIds[i])
        /\ ~VariantFailed(results[i])

\* The continuation without the check that sets the aggregate error
VariationsReconciled_NoAggregateError(call, results, eager) ==
    /\ images' = Reconcile(images, call, results, Len(results))
    /\ UNCHANGED error

\* The continuation after the await.  React runs the updater of setImages
\* at once when the component has no update queued (eager = TRUE) and in
\* the next render otherwise, so updateOccurred is either the updater's
\* value or still false when it is read.
VariationsReconciled(call, results, eager) ==
    LET reconciled == Reconcile(images, call, results, Len(results))
        updateOccurred == eager /\ UpdateOccurred(images, call, results)
    IN  IF ~updateOccurred /\ Len(results) > 0 /\ results[1].error # ""
        THEN /\ error' = "Generation of variants failed"
             /\ images' = FilterOut(reconciled,
                                    {call.placeholderIds[i] : i \in DOMAIN call.placeholderIds})
        ELSE /\ images' = reconciled
             /\ UNCHANGED error

\* A catch block that leaves the placeholders where they are
VariationsThrew_KeepsPlaceholders(call) ==
    UNCHANGED <<images, error>>

\* catch (err) { ... }
VariationsThrew(call) ==
    /\ images' = FilterOut(images, {call.placeholderIds[i] : i \in DOMAIN call.placeholderIds})
    /\ UNCHANGED error

\* The await of generateImageVariations resolves
VariationsResolve ==
    /\ EffectsIdle
    /\ \E k \in DOMAIN varCalls :
        \E results \in generateImageVariations(varCalls[k].parentPrompt, nextUuid) :
            \E eager \in BOOLEAN :
                /\ nextUuid + UuidsUsed(results) - 1 <= MaxUuid
                /\ VariationsReconciled(varCalls[k], results, eager)
                /\ nextUuid' = nextUuid + UuidsUsed(results)
                /\ varCalls' = RemoveAt(varCalls, k)
                /\ lastOp' = [op |-> "variationsResolved", call |-> varCalls[k],
                              results |-> results,
                              gone |-> {i \in DOMAIN varCalls[k].placeholderIds :
                                          ~HasId(images, varCalls[k].placeholderIds[i])}]
    /\ UNCHANGED <<gestures, selectedImageId, prompt, debouncedPrompt, timeoutRef, isRegeneratingRef,
                   regenCalls, effectDeps, clock>>
    /\ UNCHANGED promptEdited
    /\ UNCHANGED <<libraryVars, layoutVars>>

\* The await of generateImageVariations rejects
VariationsReject ==
    /\ EffectsIdle
    /\ \E k \in DOMAIN varCalls :
        /\ VariationsThrew(varCalls[k])
        /\ varCalls' = RemoveAt(varCalls, k)
        /\ lastOp' = [op |-> "variationsThrew", call |-> varCalls[k],
                      gone |-> {i \in DOMAIN varCalls[k].placeholderIds :
                                  ~HasId(images, varCalls[k].placeholderIds[i])}]
    /\ UNCHANGED <<gestures, selectedImageId, prompt, debouncedPrompt, timeoutRef, isRegeneratingRef,
                   regenCalls, effectDeps, nextUuid, clock>>
    /\ UNCHANGED promptEdited
    /\ UNCHANGED <<libraryVars, layoutVars>>

----------------------------------------------------------------------------
\* The saved-image catalog (handleSaveImage, loadSavedImagesForDropdown,
\* handleSelectSavedImage) and the persistence service (supabaseService.ts)

canvasVars == <<images, selectedImageId, prompt, debouncedPrompt, timeoutRef, error,
                isRegeneratingRef, regenCalls, varCalls, effectDeps, nextUuid, clock>>

\* The signed URL the storage gives for a saved image
SignedUrl(id) == <<"signed", id>>

\* A row of the images table that an earlier session marked saved
EarlierRows == {[id |-> <<"uuid", 0>>, prompt |-> "s"]}

\* saveImageBlob(id, src): the image is stored and its row marked saved; the
\* upload succeeds and the update matches no row; the service reports an error
SaveOutcomes == {"saved", "noRow", "error"}

SaveResult(outcome) ==
    [error |-> IF outcome = "error" THEN "Failed to save Image" ELSE Null]

\* const loadedImageInfos = loadedImagesResult.map(...)
LoadedImageInfos(rows) ==
    {[id |-> row.id, src |-> SignedUrl(row.id), prompt |-> row.prompt] : row \in rows}

\* loadSavedImagesForDropdown up to its await
loadSavedImagesForDropdown ==
    /\ isLoadingSavedImages' = TRUE
    /\ loadCalls' = Append(loadCalls, [atStart |-> store', superseded |-> FALSE])

\* The calls in flight once call k has resolved
AfterResolved(calls, k) ==
    RemoveAt([i \in DOMAIN calls |->
                 IF i < k THEN [calls[i] EXCEPT !.superseded = TRUE] ELSE calls[i]], k)

\* The continuation after await fetchSavedImages(): setSavedImages, then the
\* finally block
LoadReturned(k, result) ==
    /\ savedImages' = LoadedImageInfos(result)
    /\ loadCalls' = AfterResolved(loadCalls, k)
    /\ isLoadingSavedImages' = FALSE

\* fetchSavedImages resolves: the saved rows as the query saw them, without
\* those whose signed URL could not be made (none of them after a query error)
LoadResolves ==
    /\ EffectsIdle
    /\ \E k \in DOMAIN loadCalls :
        \E rows \in {loadCalls[k].atStart, store} :
            \E result \in SUBSET rows :
                /\ LoadReturned(k, result)
                /\ lastOp' = [op |-> "loaded", result |-> result,
                              superseded |-> loadCalls[k].superseded]
    /\ UNCHANGED <<canvasVars, gestures, promptEdited, isImageDropdownOpen, saveCalls, store>>
    /\ UNCHANGED layoutVars

\* fetchSavedImages rejects
LoadRejects ==
    /\ EffectsIdle
    /\ \E k \in DOMAIN loadCalls : loadCalls' = RemoveAt(loadCalls, k)
    /\ error' = "Failed to fetch saved images"
    /\ isLoadingSavedImages' = FALSE
    /\ lastOp' = [op |-> "loadThrew"]
    /\ UNCHANGED <<images, selectedImageId, prompt, debouncedPrompt, timeoutRef,
                   isRegeneratingRef, regenCalls, varCalls, effectDeps, nextUuid, clock,
                   gestures, promptEdited, savedImages, isImageDropdownOpen, saveCalls, store>>
    /\ UNCHANGED layoutVars

\* The save button of an entity (handleSaveClick, then handleSaveImage up to
\* its await); the button is disabled while the entity is being saved
handleSaveImage(id, src) ==
    /\ EffectsIdle
    /\ Gesture
    /\ \A k \in DOMAIN saveCalls : saveCalls[k].id # id
    /\ saveCalls' = Append(saveCalls, [id |-> id, src |-> src,
                                       prompt |-> images[FindIndex(images, id)].prompt])
    /\ lastOp' = [op |-> "save"]
    /\ UNCHANGED <<canvasVars, promptEdited, savedImages, isLoadingSavedImages,
                   isImageDropdownOpen, loadCalls, store>>
    /\ UNCHANGED layoutVars

\* The continuation after await saveImageBlob(id, src)
SaveReturned(call, outcome) ==
    /\ store' = IF outcome = "saved"
                THEN store \cup {[id |-> call.id, prompt |-> call.prompt]}
                ELSE store
    /\ loadSavedImagesForDropdown
    /\ UNCHANGED error

\* The await of saveImageBlob resolves
SaveResolves ==
    /\ EffectsIdle
    /\ \E k \in DOMAIN saveCalls :
        \E outcome \in SaveOutcomes :
            /\ SaveReturned(saveCalls[k], outcome)
            /\ saveCalls' = RemoveAt(saveCalls, k)
            /\ lastOp' = [op |-> "saveReturned", call |-> saveCalls[k],
                          result |-> SaveResult(outcome)]
    /\ UNCHANGED <<images, selectedImageId, prompt, debouncedPrompt, timeoutRef,
                   isRegeneratingRef, regenCalls, varCalls, effectDeps, nextUuid, clock,
                   gestures, promptEdited, savedImages, isImageDropdownOpen>>
    /\ UNCHANGED layoutVars

\* The await of saveImageBlob rejects: catch (error) { setError(...) }
SaveRejects ==
    /\ EffectsIdle
    /\ \E k \in DOMAIN saveCalls :
        /\ saveCalls' = RemoveAt(saveCalls, k)
        /\ lastOp' = [op |-> "saveThrew", call |-> saveCalls[k]]
    /\ error' = "Failed to save image"
    /\ UNCHANGED <<images, selectedImageId, prompt, debouncedPrompt, timeoutRef,
                   isRegeneratingRef, regenCalls, varCalls, effectDeps, nextUuid, clock,
                   gestures, promptEdited, savedImages, isLoadingSavedImages,
                   isImageDropdownOpen, loadCalls, store>>
    /\ UNCHANGED layoutVars

toggleImageDropdown ==
    /\ EffectsIdle
    /\ Gesture
    /\ isImageDropdownOpen' = ~isImageDropdownOpen
    /\ lastOp' = [op |-> "toggleDropdown"]
    /\ UNCHANGED <<canvasVars, promptEdited, savedImages, isLoadingSavedImages,
                   saveCalls, loadCalls, store>>
    /\ UNCHANGED layoutVars

\* The entry placed without removing the entity that has its id
handleSelectSavedImage_NoFilter(selectedImageInfo) ==
    /\ EffectsIdle
    /\ Gesture
    /\ isImageDropdownOpen
    /\ ~isLoadingSavedImages
    /\ images' = Append(images, [id |-> selectedImageInfo.id,
                                 src |-> selectedImageInfo.src,
                                 prompt |-> selectedImageInfo.prompt,
                                 position |-> CenterPosition,
                                 parentId |-> NoId,
                                 isLoading |-> FALSE,
                                 isPlaceholder |-> FALSE])
    /\ Len(images') <= MaxImages
    /\ SetPromptAndResetDebounce(selectedImageInfo.prompt)
    /\ selectedImageId' = selectedImageInfo.id
    /\ isImageDropdownOpen' = FALSE
    /\ promptEdited' = FALSE
    /\ lastOp' = [op |-> "placeSaved", entry |-> selectedImageInfo,
                  replaced |-> HasId(images, selectedImageInfo.id)]
    /\ UNCHANGED <<error, isRegeneratingRef, regenCalls, varCalls, effectDeps, nextUuid, clock,
                   savedImages, isLoadingSavedImages, saveCalls, loadCalls, store>>
    /\ UNCHANGED layoutVars

\* A click on an entry of the open dropdown
handleSelectSavedImage(selectedImageInfo) ==
    /\ EffectsIdle
    /\ Gesture
    /\ isImageDropdownOpen
    /\ ~isLoadingSavedImages
    /\ LET newCanvasImage == [id |-> selectedImageInfo.id,
                              src |-> selectedImageInfo.src,
                              prompt |-> selectedImageInfo.prompt,
                              position |-> CenterPosition,
                              parentId |-> NoId,
                              isLoading |-> FALSE,
                              isPlaceholder |-> FALSE]
       IN  images' = Append(FilterOut(images, {newCanvasImage.id}), newCanvasImage)
    /\ Len(images') <= MaxImages
    /\ SetPromptAndResetDebounce(selectedImageInfo.prompt)
    /\ selectedImageId' = selectedImageInfo.id
    /\ isImageDropdownOpen' = FALSE
    /\ promptEdited' = FALSE
    /\ lastOp' = [op |-> "placeSaved", entry |-> selectedImageInfo,
                  replaced |-> HasId(images, selectedImageInfo.id)]
    /\ UNCHANGED <<error, isRegeneratingRef, regenCalls, varCalls, effectDeps, nextUuid, clock,
                   savedImages, isLoadingSavedImages, saveCalls, loadCalls, store>>
    /\ UNCHANGED layoutVars

----------------------------------------------------------------------------
\* Layout: duplication (handleDuplicateImage), drag (handleUpdatePosition),
\* grid arrangement (handleArrangeGrid) and the size of the canvas element

\* The handler up to await generateUuid(): the source and the position of the
\* copy are computed here and kept by the continuation
handleDuplicateImage(sourceImageId) ==
    /\ EffectsIdle
    /\ Gesture
    /\ IF ~HasId(images, sourceImageId)
       THEN /\ error' = "Could not find the image to duplicate."
            /\ lastOp' = [op |-> "duplicateNoSource", sourceImageId |-> sourceImageId]
            /\ UNCHANGED dupCalls
       ELSE LET sourceImage == images[FindIndex(images, sourceImageId)]
                position == clampPositionToBounds(
                                [x |-> sourceImage.position.x + IMAGE_SIZE + DUPLICATION_OFFSET,
                                 y |-> sourceImage.position.y],
                                ContainerWidth, EffectiveHeight, IMAGE_SIZE)
            IN  /\ error' = Null
                /\ dupCalls' = Append(dupCalls, [sourceImageId |-> sourceImageId,
                                                 sourceImage |-> sourceImage,
                                                 position |-> position])
                /\ lastOp' = [op |-> "duplicate", sourceImageId |-> sourceImageId]
    /\ UNCHANGED <<images, selectedImageId, prompt, debouncedPrompt, timeoutRef, isRegeneratingRef,
                   regenCalls, varCalls, effectDeps, nextUuid, clock, promptEdited, container>>
    /\ UNCHANGED libraryVars

\* The continuation appending the copy without its parentId
DuplicateReturned_NoParent(call, uuid) ==
    IF uuid = EmptyId
    THEN /\ error' = "Failed to get image to duplicate."
         /\ UNCHANGED <<images, selectedImageId>>
    ELSE /\ images' = Append(images, [id |-> uuid,
                                      src |-> call.sourceImage.src,
                                      prompt |-> call.sourceImage.prompt,
                                      position |-> call.position,
                                      parentId |-> NoId,
                                      isLoading |-> FALSE,
                                      isPlaceholder |-> FALSE])
         /\ selectedImageId' = uuid
         /\ UNCHANGED error

\* The continuation without the test of the id
DuplicateReturned_EmptyIdAccepted(call, uuid) ==
    /\ images' = Append(images, [id |-> uuid,
                                 src |-> call.sourceImage.src,
                                 prompt |-> call.sourceImage.prompt,
                                 position |-> call.position,
                                 parentId |-> call.sourceImageId,
                                 isLoading |-> FALSE,
                                 isPlaceholder |-> FALSE])
    /\ selectedImageId' = uuid
    /\ UNCHANGED error

\* The continuation after await generateUuid()
DuplicateReturned(call, uuid) ==
    IF uuid = EmptyId
    THEN /\ error' = "Failed to get image to duplicate."
         /\ UNCHANGED <<images, selectedImageId>>
    ELSE /\ images' = Append(images, [id |-> uuid,
                                      src |-> call.sourceImage.src,
                                      prompt |-> call.sourceImage.prompt,
                                      position |-> call.position,
                                      parentId |-> call.sourceImageId,
                                      isLoading |-> FALSE,
                                      isPlaceholder |-> FALSE])
         /\ selectedImageId' = uuid
         /\ UNCHANGED error

\* The await of generateUuid resolves with uuid
DuplicateResolvesWith(uuid) ==
    /\ EffectsIdle
    /\ uuid # EmptyId => (nextUuid <= MaxUuid /\ Len(images) < MaxImages)
    /\ \E k \in DOMAIN dupCalls :
        /\ DuplicateReturned(dupCalls[k], uuid)
        /\ dupCalls' = RemoveAt(dupCalls, k)
        /\ lastOp' = [op |-> "duplicated", call |-> dupCalls[k], uuid |-> uuid]
    /\ nextUuid' = IF uuid = EmptyId THEN nextUuid ELSE nextUuid + 1
    /\ UNCHANGED <<gestures, prompt, debouncedPrompt, timeoutRef, isRegeneratingRef,
                   regenCalls, varCalls, effectDeps, clock, promptEdited, container>>
    /\ UNCHANGED libraryVars

\* generateUuid returns uuidv4()
DuplicateResolves == DuplicateResolvesWith(Uuid(nextUuid))

\* The id capability answers with an empty id
DuplicateResolvesEmpty == DuplicateResolvesWith(EmptyId)

\* The await of generateUuid rejects (the server action did not answer):
\* the handler has no catch
DuplicateRejects ==
    /\ EffectsIdle
    /\ \E k \in DOMAIN dupCalls :
        /\ dupCalls' = RemoveAt(dupCalls, k)
        /\ lastOp' = [op |-> "duplicateThrew", call |-> dupCalls[k]]
    /\ UNCHANGED <<images, selectedImageId, prompt, debouncedPrompt, timeoutRef, error,
                   isRegeneratingRef, regenCalls, varCalls, effectDeps, nextUuid, clock,
                   gestures, promptEdited, container>>
    /\ UNCHANGED libraryVars

\* The end of a drag of entity id (handleDragStop)
handleUpdatePosition(id, newPosition) ==
    /\ EffectsIdle
    /\ Gesture
    /\ images' = [i \in DOMAIN images |->
                    IF images[i].id = id
                    THEN [images[i] EXCEPT !.position = newPosition]
                    ELSE images[i]]
    /\ lastOp' = [op |-> "drag"]
    /\ UNCHANGED <<selectedImageId, prompt, debouncedPrompt, timeoutRef, error, isRegeneratingRef,
                   regenCalls, varCalls, effectDeps, nextUuid, clock, promptEdited, layoutVars>>
    /\ UNCHANGED libraryVars

\* Where a drag can end: Draggable keeps the entity inside its parent
\* (bounds="parent"); the corners of that area
DragPositions ==
    {[x |-> x, y |-> y] : x \in {0, Max(0, ContainerWidth - IMAGE_SIZE)},
                          y \in {0, Max(0, ContainerHeight - IMAGE_SIZE)}}

\* Math.ceil(a / b) for a >= 0 and b > 0
CeilDiv(a, b) == (a + b - 1) \div b

\* const numColumns = Math.max(1, Math.floor(availableWidth / itemTotalWidth))
NumColumns(containerWidth) ==
    Max(1, (containerWidth - GRID_GAP) \div (IMAGE_SIZE + GRID_GAP))

\* The grid position without the clamp of x
GridPosition_NoClamp(index, containerWidth) ==
    LET itemTotalWidth == IMAGE_SIZE + GRID_GAP
        numColumns == NumColumns(containerWidth)
        gridWidth == numColumns * IMAGE_SIZE + Max(0, numColumns - 1) * GRID_GAP
        offsetX == Max(GRID_GAP, (containerWidth - gridWidth) \div 2)
        offsetY == HEADER_HEIGHT + GRID_GAP
        row == index \div numColumns
        col == index % numColumns
    IN  [x |-> offsetX + col * itemTotalWidth,
         y |-> offsetY + row * (IMAGE_SIZE + GRID_GAP)]

\* The position handleArrangeGrid gives the entity at index (0-based)
GridPosition(index, containerWidth) ==
    LET itemTotalWidth == IMAGE_SIZE + GRID_GAP
        numColumns == NumColumns(containerWidth)
        gridWidth == numColumns * IMAGE_SIZE + Max(0, numColumns - 1) * GRID_GAP
        offsetX == Max(GRID_GAP, (containerWidth - gridWidth) \div 2)
        offsetY == HEADER_HEIGHT + GRID_GAP
        row == index \div numColumns
        col == index % numColumns
        newX == offsetX + col * itemTotalWidth
        newY == offsetY + row * (IMAGE_SIZE + GRID_GAP)
    IN  [x |-> Max(0, Min(newX, containerWidth - IMAGE_SIZE)), y |-> newY]

\* The reflow moving each entity by its grid position instead of to it
ArrangedImages_Relative(imgs, containerWidth) ==
    [i \in DOMAIN imgs |->
        [imgs[i] EXCEPT !.position =
            [x |-> GridPosition(i - 1, containerWidth).x,
             y |-> imgs[i].position.y + GridPosition(i - 1, containerWidth).y]]]

\* const newImages = images.map((image, index) => ...)
ArrangedImages(imgs, containerWidth) ==
    [i \in DOMAIN imgs |-> [imgs[i] EXCEPT !.position = GridPosition(i - 1, containerWidth)]]

\* const requiredContainerHeight = offsetY + gridHeight + GRID_GAP
RequiredContainerHeight(count, containerWidth) ==
    LET numRows == CeilDiv(count, NumColumns(containerWidth))
        gridHeight == numRows * IMAGE_SIZE + Max(0, numRows - 1) * GRID_GAP
    IN  HEADER_HEIGHT + GRID_GAP + gridHeight + GRID_GAP

\* The handler leaving the selection as it is
handleArrangeGrid_KeepsSelection ==
    /\ Gesture
    /\ IF Len(images) = 0
       THEN /\ error' = "Failed to arrange images"
            /\ lastOp' = [op |-> "arrangeFailed"]
            /\ UNCHANGED <<images, selectedImageId, container>>
       ELSE /\ error' = Null
            /\ container' = [container EXCEPT
                                !.minHeight = RequiredContainerHeight(Len(images), ContainerWidth)]
            /\ images' = ArrangedImages(images, ContainerWidth)
            /\ UNCHANGED selectedImageId
            /\ lastOp' = [op |-> "arrange", width |-> ContainerWidth,
                          again |-> \A i \in DOMAIN images :
                                       images[i].position = GridPosition(i - 1, ContainerWidth)]
    /\ UNCHANGED <<prompt, debouncedPrompt, timeoutRef, isRegeneratingRef,
                   regenCalls, varCalls, effectDeps, nextUuid, clock, promptEdited, dupCalls>>
    /\ UNCHANGED libraryVars

\* The handler of the Arrange button
handleArrangeGrid ==
    /\ Gesture
    /\ IF Len(images) = 0
       THEN /\ error' = "Failed to arrange images"
            /\ lastOp' = [op |-> "arrangeFailed"]
            /\ UNCHANGED <<images, selectedImageId, container>>
       ELSE /\ error' = Null
            /\ container' = [container EXCEPT
                                !.minHeight = RequiredContainerHeight(Len(images), ContainerWidth)]
            /\ images' = ArrangedImages(images, ContainerWidth)
            /\ selectedImageId' = NoId
            /\ lastOp' = [op |-> "arrange", width |-> ContainerWidth,
                          again |-> \A i \in DOMAIN images :
                                       images[i].position = GridPosition(i - 1, ContainerWidth)]
    /\ UNCHANGED <<prompt, debouncedPrompt, timeoutRef, isRegeneratingRef,
                   regenCalls, varCalls, effectDeps, nextUuid, clock, promptEdited, dupCalls>>
    /\ UNCHANGED libraryVars

\* A click on the Arrange button, which is disabled with fewer than two entities
ArrangeButton ==
    /\ EffectsIdle
    /\ Len(images) >= 2
    /\ handleArrangeGrid

\* The sizes the page layout gives the canvas element
ContainerSizes ==
    { [width |-> 100, height |-> 400],
      [width |-> 160, height |-> 200],
      [width |-> 400, height |-> 400],
      [width |-> 560, height |-> 400] }

\* The window is resized or the device is turned: the page layout gives the
\* canvas element another size
Resize ==
    /\ EffectsIdle
    /\ \E size \in ContainerSizes :
        /\ <<size.width, size.height>> # <<container.width, container.height>>
        /\ container' = [container EXCEPT !.width = size.width, !.height = size.height]
    /\ lastOp' = [op |-> "resize"]
    /\ UNCHANGED <<images, selectedImageId, prompt, debouncedPrompt, timeoutRef, error,
                   isRegeneratingRef, regenCalls, varCalls, effectDeps, nextUuid, clock,
                   gestures, promptEdited, dupCalls>>
    /\ UNCHANGED libraryVars

\* The ids of the entities drawn on the canvas
CanvasIds == {images[i].id : i \in DOMAIN images}

\* The entities that show their buttons (delete, variations, duplicate, save):
\* isSelected && !isLoading && !isPlaceholder
ToolbarShown ==
    {i \in DOMAIN images :
        /\ images[i].id = selectedImageId
        /\ ~images[i].isLoading
        /\ ~images[i].isPlaceholder}

Next ==
    \/ InitialPlaceholderEffect
    \/ RegenerationEffect
    \/ RegenerationResolves
    \/ RegenerationRejects
    \/ \E id \in CanvasIds : handleSelectImage(id)
    \/ handleContainerClick
    \/ \E v \in TypedPrompts : handlePromptInputChange(v)
    \/ DebounceTimeout
    \/ \E i \in ToolbarShown : handleDeleteImage(images[i].id)
    \/ \E i \in ToolbarShown : handleGenerateVariations(images[i].id, images[i].prompt)
    \/ VariationsResolve
    \/ VariationsReject

Spec == Init /\ [][Next]_vars

\* The canvas without the variation buttons: selection, typing, delete and
\* the regeneration pipeline
RegenerationNext ==
    \/ InitialPlaceholderEffect
    \/ RegenerationEffect
    \/ RegenerationResolves
    \/ RegenerationRejects
    \/ \E id \in CanvasIds : handleSelectImage(id)
    \/ handleContainerClick
    \/ \E v \in TypedPrompts : handlePromptInputChange(v)
    \/ DebounceTimeout
    \/ \E i \in ToolbarShown : handleDeleteImage(images[i].id)

\* The effects run after each render and the awaited generateImage call
\* settles: it resolves or it rejects
RegenerationFairness ==
    /\ WF_vars(InitialPlaceholderEffect)
    /\ WF_vars(RegenerationEffect)
    /\ WF_vars(RegenerationResolves \/ RegenerationRejects)

RegenerationFairSpec == Init /\ [][RegenerationNext]_vars /\ RegenerationFairness

\* The canvas with room for the placeholders of two generateVariations
\* calls: typing one prompt, the regeneration pipeline and the variations
\* button
FanOutNext ==
    \/ InitialPlaceholderEffect
    \/ RegenerationEffect
    \/ RegenerationResolves
    \/ RegenerationRejects
    \/ handlePromptInputChange("a")
    \/ DebounceTimeout
    \/ \E i \in ToolbarShown :
          GenerateVariationsWithin(images[i].id, images[i].prompt, MaxFanOutImages)
    \/ VariationsResolve
    \/ VariationsReject

FanOutSpec == Init /\ [][FanOutNext]_vars

\* The canvas with the saved-image catalog: selection, typing, delete, the
\* regeneration pipeline, save, the catalog refreshes and the dropdown
LibraryNext ==
    \/ InitialPlaceholderEffect
    \/ RegenerationEffect
    \/ RegenerationResolves
    \/ RegenerationRejects
    \/ \E id \in CanvasIds : handleSelectImage(id)
    \/ handleContainerClick
    \/ \E v \in TypedPrompts : handlePromptInputChange(v)
    \/ DebounceTimeout
    \/ \E i \in ToolbarShown : handleDeleteImage(images[i].id)
    \/ \E i \in ToolbarShown : handleSaveImage(images[i].id, images[i].src)
    \/ SaveResolves
    \/ SaveRejects
    \/ LoadResolves
    \/ LoadRejects
    \/ toggleImageDropdown
    \/ \E entry \in savedImages : handleSelectSavedImage(entry)

\* The catalog of the backend holds what earlier sessions saved
LibraryStart ==
    /\ CanvasInit
    /\ \E rows \in SUBSET EarlierRows : LibraryInit(rows)
    /\ LayoutInit(DefaultSize)

LibrarySpec == LibraryStart /\ [][LibraryNext]_vars

\* What the user types on the canvas with its layout
LayoutPrompts == {"a", "b"}

\* The canvas with its layout: the regeneration pipeline, selection, typing,
\* drag, duplication and the Arrange button, in a canvas element of any of
\* the sizes
LayoutNext ==
    \/ InitialPlaceholderEffect
    \/ RegenerationEffect
    \/ RegenerationResolves
    \/ RegenerationRejects
    \/ \E id \in CanvasIds : handleSelectImage(id)
    \/ \E v \in LayoutPrompts : handlePromptInputChange(v)
    \/ DebounceTimeout
    \/ \E id \in CanvasIds : \E newPosition \in DragPositions : handleUpdatePosition(id, newPosition)
    \/ \E i \in ToolbarShown : handleDuplicateImage(images[i].id)
    \/ DuplicateResolves
    \/ DuplicateRejects
    \/ ArrangeButton

\* The canvas element has any of the sizes at mount
LayoutStart ==
    /\ CanvasInit
    /\ LibraryInit({})
    /\ \E size \in ContainerSizes : LayoutInit(size)

LayoutSpec == LayoutStart /\ [][LayoutNext]_vars

\* The canvas in a window that changes size: typing one prompt, the
\* regeneration pipeline, drag and duplication
ResizeNext ==
    \/ InitialPlaceholderEffect
    \/ RegenerationEffect
    \/ RegenerationResolves
    \/ RegenerationRejects
    \/ handlePromptInputChange("a")
    \/ DebounceTimeout
    \/ \E id \in CanvasIds : \E newPosition \in DragPositions : handleUpdatePosition(id, newPosition)
    \/ \E i \in ToolbarShown : handleDuplicateImage(images[i].id)
    \/ DuplicateResolves
    \/ DuplicateRejects
    \/ Resize

ResizeSpec == LayoutStart /\ [][ResizeNext]_vars

\* The ids a handler of the orchestrator can be called with: those of the
\* entities on the canvas and ids that entities had earlier
CallableIds == CanvasIds \cup {INITIAL_PLACEHOLDER_ID, Uuid(1)}

\* The operations of the orchestrator as it hands them to its children
\* (onSelect, onDelete, onGenerateVariations, onDuplicate, the Arrange
\* handler), called with any id and in any render, whatever buttons the
\* children show.  Variations are asked for parents that are not on the
\* canvas; those of the parents on the canvas are in Spec.
ContractNext ==
    \/ InitialPlaceholderEffect
    \/ RegenerationEffect
    \/ RegenerationResolves
    \/ RegenerationRejects
    \/ handlePromptInputChange("a")
    \/ DebounceTimeout
    \/ \E id \in CallableIds : handleSelectImage(id)
    \/ \E id \in CallableIds : handleDeleteImage(id)
    \/ \E id \in CallableIds \ CanvasIds : handleGenerateVariations(id, "a")
    \/ \E id \in CallableIds : handleDuplicateImage(id)
    \/ DuplicateResolves
    \/ DuplicateResolvesEmpty
    \/ DuplicateRejects
    \/ handleArrangeGrid

ContractSpec == Init /\ [][ContractNext]_vars

----------------------------------------------------------------------------
\* Properties of the regeneration pipeline

\* The step is a run of the regeneration effect
EffectRan == effectDeps' # effectDeps

\* The step starts a regeneration
RegenerationStarted == Len(regenCalls') > Len(regenCalls)

\* The step ends a regeneration
RegenerationEnded == Len(regenCalls') < Len(regenCalls)

C2_Conditions ==
    /\ selectedImageId # NoId
    /\ HasId(images, selectedImageId)
    /\ Trim(debouncedPrompt) # ""
    /\ regenCalls = <<>>
    /\ \E i \in DOMAIN images :
          images[i].id = selectedImageId /\ images[i].prompt # debouncedPrompt

C4_RegenerationFailure ==
    [][ (RegenerationEnded /\ lastOp'.op \in {"regenerationFailed", "regenerationThrew"}) =>
            LET call == lastOp'.call
            IN  /\ error' # Null
                /\ Len(images') = Len(images)
                /\ \A i \in DOMAIN images :
                      IF images[i].id = call.imageId
                      THEN images'[i] = [images[i] EXCEPT !.isLoading = FALSE]
                      ELSE images'[i] = images[i]
                /\ selectedImageId' = selectedImageId
      ]_vars

\* A regeneration has just failed by an exception on an entity of the collection
C4_Witness ==
    /\ lastOp.op = "regenerationThrew"
    /\ error # Null
    /\ \E i \in DOMAIN images :
          /\ images[i].id = lastOp.call.imageId
          /\ ~images[i].isLoading
          /\ images[i].id = selectedImageId

\* C5: every started regeneration releases the latch when its call ends, by
\* any of the three ways, and the call does end; after that a new regeneration
\* can start.
C5_LatchReleased ==
    /\ [][RegenerationEnded => ~isRegeneratingRef']_vars
    /\ (isRegeneratingRef ~> ~isRegeneratingRef)

\* A regeneration has started after an earlier one ended
C5_Witness ==
    /\ lastOp.op = "regenerate"
    /\ isRegeneratingRef
    /\ (nextUuid > 1 \/ error # Null)

----------------------------------------------------------------------------
\* Properties of the variation fan-out

\* The step is the continuation of a generateVariations call whose request resolved
VariationsEnded ==
    /\ Len(varCalls') < Len(varCalls)
    /\ lastOp'.op = "variationsResolved"

\* The placeholder ids of a call, as a set
PlaceholderIdSet(call) == {call.placeholderIds[i] : i \in DOMAIN call.placeholderIds}

\* A placeholder turned into the real entity of a result
Promoted(placeholder, result) ==
    [id |-> result.id,
     src |-> result.imageUrl,
     prompt |-> result.promptUsed,
     position |-> placeholder.position,
     parentId |-> placeholder.parentId,
     isLoading |-> FALSE,
     isPlaceholder |-> FALSE]

\* C6: once no regeneration and no variation request is in flight, no entity
\* is loading, whatever number of results the variation capability returned.
C6_NoLoadingWhenIdle ==
    (regenCalls = <<>> /\ varCalls = <<>>) =>
        \A i \in DOMAIN images : ~images[i].isLoading

\* One result per placeholder, each a success or an error, at least one of each
C7_PartialSuccess(results) ==
    /\ Len(results) = 4
    /\ \A i \in DOMAIN results : ~VariantFailed(results[i]) \/ results[i].error # ""
    /\ \E i \in DOMAIN results : ~VariantFailed(results[i])
    /\ \E i \in DOMAIN results : results[i].error # ""

\* C7: with partial success (errors at any index) the placeholders at the
\* success indices become real entities with the placeholder's position and
\* parentId and the result's id, URL and prompt, not loading and no
\* placeholder; those at the error indices are removed; no aggregate error
\* is raised.
C7_PartialSuccessReconciled ==
    [][ (VariationsEnded /\ C7_PartialSuccess(lastOp'.results) /\ lastOp'.gone = {}) =>
            LET call == lastOp'.call
                results == lastOp'.results
            IN  /\ \A i \in DOMAIN results :
                      IF VariantFailed(results[i])
                      THEN ~HasId(images', call.placeholderIds[i])
                      ELSE \E j \in DOMAIN images' :
                              images'[j] = Promoted(images[FindIndex(images, call.placeholderIds[i])],
                                                    results[i])
                /\ Len(images') = Len(images)
                                    - Cardinality({i \in DOMAIN results : VariantFailed(results[i])})
                /\ error' = error
      ]_vars

\* C8: when all four results are errors, none of the call's placeholders
\* remains, every other entity is still there, in order, and the aggregate
\* error is shown.
C8_TotalFailure ==
    [][ (/\ VariationsEnded
         /\ Len(lastOp'.results) = 4
         /\ \A i \in DOMAIN lastOp'.results : lastOp'.results[i].error # "") =>
            /\ images' = FilterOut(images, PlaceholderIdSet(lastOp'.call))
            /\ \A id \in PlaceholderIdSet(lastOp'.call) : ~HasId(images', id)
            /\ error' = "Generation of variants failed"
      ]_vars

\* A call whose four placeholders were all there has just ended with four errors
C8_Witness ==
    /\ lastOp.op = "variationsResolved"
    /\ Len(lastOp.results) = 4
    /\ \A i \in DOMAIN lastOp.results : lastOp.results[i].error # ""
    /\ lastOp.gone = {}
    /\ error = "Generation of variants failed"
    /\ Len(images) >= 1

\* C9: when a call ends with no usable result and at least one result that
\* carries an error, at any index, the aggregate error is shown and none of
\* the call's placeholders remains.
C9_NoSuccessSomeError ==
    [][ (/\ VariationsEnded
         /\ \A i \in DOMAIN lastOp'.results : VariantFailed(lastOp'.results[i])
         /\ \E i \in DOMAIN lastOp'.results : lastOp'.results[i].error # "") =>
            /\ error' = "Generation of variants failed"
            /\ \A id \in PlaceholderIdSet(lastOp'.call) : ~HasId(images', id)
      ]_vars

\* C10: a result whose placeholder id is no longer in the collection is
\* skipped: the placeholder id does not come back, the result's id enters the
\* collection nowhere, and every entity after the step was there before it or
\* is the promotion of a placeholder that was still there.
C10_StaleResultDiscarded ==
    [][ (VariationsEnded /\ lastOp'.gone # {}) =>
            LET call == lastOp'.call
                results == lastOp'.results
                gone == lastOp'.gone
            IN  /\ \A i \in gone :
                      /\ ~HasId(images', call.placeholderIds[i])
                      /\ i \in DOMAIN results => ~HasId(images', results[i].id)
                /\ \A j \in DOMAIN images' :
                      \/ \E k \in DOMAIN images : images'[j] = images[k]
                      \/ \E i \in DOMAIN results \ gone :
                            /\ i \in DOMAIN call.placeholderIds
                            /\ HasId(images, call.placeholderIds[i])
                            /\ images'[j] = Promoted(images[FindIndex(images, call.placeholderIds[i])],
                                                     results[i])
                /\ Len(images') <= Len(images)
      ]_vars

\* A success result has just arrived for a placeholder that was gone
C10_Witness ==
    /\ lastOp.op = "variationsResolved"
    /\ \E i \in lastOp.gone :
          /\ i \in DOMAIN lastOp.results
          /\ ~VariantFailed(lastOp.results[i])

\* The step is the handler of the variations button inserting its placeholders
VariationsStarted ==
    /\ Len(varCalls') = Len(varCalls) + 1
    /\ lastOp'.op = "variations"

\* C11: generateVariations on an existing parent appends four placeholders
\* (isPlaceholder, isLoading, parentId the parent's id, empty src) to the
\* collection in the step that issues the request, before any result.
C11_PlaceholdersInserted ==
    [][ VariationsStarted =>
            LET call == varCalls'[Len(varCalls')]
            IN  /\ Len(images') = Len(images) + 4
                /\ SubSeq(images', 1, Len(images)) = images
                /\ HasId(images, selectedImageId)
                /\ \A i \in 1..4 :
                      LET p == images'[Len(images) + i]
                      IN  /\ p.id = call.placeholderIds[i]
                          /\ p.isPlaceholder
                          /\ p.isLoading
                          /\ p.parentId = selectedImageId
                          /\ p.src = NoUrl
      ]_vars

\* The four placeholders of a pending call are on the canvas, all loading,
\* and no result has arrived
C11_Witness ==
    /\ lastOp.op = "variations"
    /\ Len(varCalls) = 1
    /\ \A i \in 1..4 :
          \E j \in DOMAIN images :
              /\ images[j].id = varCalls[1].placeholderIds[i]
              /\ images[j].isLoading
              /\ images[j].isPlaceholder

\* The step is the catch block of a generateVariations call whose request threw
VariationsFailedByException ==
    /\ Len(varCalls') < Len(varCalls)
    /\ lastOp'.op = "variationsThrew"

\* C12: when the variation call throws, none of the call's placeholders
\* remains and every other entity is kept, in the same order.
C12_ExceptionRemovesPlaceholders ==
    [][ VariationsFailedByException =>
            LET ids == PlaceholderIdSet(lastOp'.call)
            IN  /\ \A id \in ids : ~HasId(images', id)
                /\ images' = FilterOut(images, ids)
                /\ \A k \in DOMAIN images :
                      images[k].id \notin ids => \E j \in DOMAIN images' : images'[j] = images[k]
      ]_vars

\* A call whose four placeholders were all on the canvas has just thrown
C12_Witness ==
    /\ lastOp.op = "variationsThrew"
    /\ lastOp.gone = {}
    /\ Len(images) >= 1
    /\ \A id \in PlaceholderIdSet(lastOp.call) : ~HasId(images, id)

\* C13: an exception thrown inside an operation, the variation pipeline
\* included, leaves a user-visible error (error is not null after the catch).
C13_ExceptionsSurfaced ==
    [][ lastOp'.op \in {"regenerationThrew", "variationsThrew"} => error' # Null ]_vars

\* The results of the step come from a failed augmentation step
UpstreamFailed(results) ==
    \E i \in DOMAIN results : results[i].error = "Prompt Variation Generation failed"

\* C15 as stated: an augmentation failure gives four uniform error results,
\* one per placeholder.
C15_FourUniformErrors ==
    [][ (VariationsEnded /\ UpstreamFailed(lastOp'.results)) =>
            /\ Len(lastOp'.results) = 4
            /\ \A i, j \in DOMAIN lastOp'.results : lastOp'.results[i] = lastOp'.results[j]
      ]_vars

\* C15 amended: an augmentation failure gives one error result with an empty
\* id and the original prompt, no image is generated (no id is minted), and
\* the caller removes all its placeholders and shows the aggregate error.
C15_OneErrorResult ==
    [][ (VariationsEnded /\ UpstreamFailed(lastOp'.results)) =>
            LET results == lastOp'.results
            IN  /\ Len(results) = 1
                /\ results[1].id = EmptyId
                /\ results[1].imageUrl = NoUrl
                /\ results[1].promptUsed = lastOp'.call.parentPrompt
                /\ nextUuid' = nextUuid
                /\ images' = FilterOut(images, PlaceholderIdSet(lastOp'.call))
                /\ error' = "Generation of variants failed"
      ]_vars

\* A call whose placeholders were all there has just ended on an augmentation failure
C15_Witness ==
    /\ lastOp.op = "variationsResolved"
    /\ UpstreamFailed(lastOp.results)
    /\ lastOp.gone = {}
    /\ error = "Generation of variants failed"
    /\ \A id \in PlaceholderIdSet(lastOp.call) : ~HasId(images, id)

----------------------------------------------------------------------------
\* Properties of selection and of the prompt input

\* The step is a click on an entity of the canvas
SelectClicked ==
    /\ gestures' = gestures + 1
    /\ lastOp'.op \in {"select", "selectIgnored"}

\* C16: a click on an entity while a regeneration is in flight changes
\* neither the selection, nor the live prompt, nor the debounced prompt, nor
\* the collection.
C16_SelectIgnoredWhileRegenerating ==
    [][ (SelectClicked /\ regenCalls # <<>>) =>
            /\ lastOp'.op = "selectIgnored"
            /\ UNCHANGED <<selectedImageId, prompt, debouncedPrompt, timeoutRef, images>>
      ]_vars

\* An entity other than the selected one has just been clicked while a
\* regeneration was in flight
C16_Witness ==
    /\ lastOp.op = "selectIgnored"
    /\ regenCalls # <<>>
    /\ \E i \in DOMAIN images :
          /\ images[i].id # selectedImageId
          /\ images[i].prompt # prompt

\* C17: after a click on entity id with no regeneration in flight the
\* selection is id and the live and the debounced prompt are the stored
\* prompt of id; after a click on the background the selection is null and
\* both prompts are empty.
C17_SelectSetsPrompt ==
    [][ /\ (SelectClicked /\ regenCalls = <<>>) =>
              /\ lastOp'.op = "select"
              /\ HasId(images, selectedImageId')
              /\ prompt' = images[FindIndex(images, selectedImageId')].prompt
              /\ debouncedPrompt' = prompt'
              /\ UNCHANGED images
        /\ lastOp'.op = "deselect" =>
              /\ selectedImageId' = NoId
              /\ prompt' = ""
              /\ debouncedPrompt' = ""
      ]_vars

\* An entity with a stored prompt has just been selected while the input
\* and the debounced prompt held something else
C17_Witness ==
    /\ lastOp.op = "select"
    /\ HasId(images, selectedImageId)
    /\ prompt # ""
    /\ prompt = images[FindIndex(images, selectedImageId)].prompt
    /\ debouncedPrompt = prompt
    /\ timeoutRef # NoTimer

\* C18: selecting an entity never by itself starts a regeneration: whatever
\* was typed before and whatever timer was pending, a regeneration starts
\* only when the input was edited after the last selection, and never in the
\* step that follows a selection.
C18_SelectStartsNoRegeneration ==
    [][ RegenerationStarted => (promptEdited /\ lastOp.op # "select") ]_vars

\* The trigger ran for a selected entity with a non-blank prompt that was
\* not edited since the selection, with the latch clear, and started nothing
C18_Witness ==
    /\ lastOp.op = "effectSkipped"
    /\ ~promptEdited
    /\ regenCalls = <<>>
    /\ HasId(images, selectedImageId)
    /\ Trim(debouncedPrompt) # ""
    /\ gestures >= 2

\* The steps that reset the prompt
PromptResets == {"select", "deselect", "placeSaved", "initialPlaceholder"}

\* C19: the debounced prompt changes only (i) when the timer of an unchanged
\* live prompt runs out, and then equals the live prompt, or (ii) by a reset
\* (select, deselect, placing a saved image, mount), which sets live and
\* debounced prompt to one value and leaves no timer of an older value; a
\* pending timer always carries the live prompt; typing changes the live
\* prompt and not the debounced one.
C19_DebouncedPromptChanges ==
    [][ /\ debouncedPrompt' # debouncedPrompt =>
              \/ /\ lastOp'.op = "debounced"
                 /\ timeoutRef = <<prompt>>
                 /\ prompt' = prompt
                 /\ debouncedPrompt' = prompt
              \/ lastOp'.op \in PromptResets
        /\ lastOp'.op \in PromptResets =>
              /\ debouncedPrompt' = prompt'
              /\ timeoutRef' \in {NoTimer, <<prompt'>>}
        /\ timeoutRef' # NoTimer => timeoutRef' = <<prompt'>>
        /\ lastOp'.op = "type" =>
              /\ prompt' # prompt
              /\ debouncedPrompt' = debouncedPrompt
      ]_vars

\* A saved image was placed and selected, the input was then edited, and the
\* timer has just run out
C19_Witness ==
    /\ lastOp.op = "debounced"
    /\ promptEdited
    /\ debouncedPrompt = prompt
    /\ \E i \in DOMAIN images :
          /\ images[i].id = selectedImageId
          /\ images[i].src = SignedUrl(images[i].id)
          /\ images[i].prompt # prompt

----------------------------------------------------------------------------
\* Properties of the saved-image catalog

\* C14: when saveImageBlob returns a populated error field, the save
\* operation shows an error.
C14_SaveFailureSurfaced ==
    [][ (lastOp'.op = "saveReturned" /\ lastOp'.result.error # Null) => error' # Null ]_vars

----------------------------------------------------------------------------
\* Properties of the collection

\* C20: no two entities of the collection have the same id.
C20_UniqueIds ==
    \A i, j \in DOMAIN images : images[i].id = images[j].id => i = j

\* C21: while a regeneration is in flight its target, as long as it is in the
\* collection, is loading; while a variation request is in flight each of its
\* placeholders, as long as it is in the collection, is loading.
C21_LoadingWhileInFlight ==
    /\ \A k \in DOMAIN regenCalls :
          \A i \in DOMAIN images :
              images[i].id = regenCalls[k].imageId => images[i].isLoading
    /\ \A k \in DOMAIN varCalls :
          \A i \in DOMAIN images :
              images[i].id \in PlaceholderIdSet(varCalls[k]) => images[i].isLoading

----------------------------------------------------------------------------
\* Properties of duplication

\* The step is the handler of the duplicate button starting the id request
DuplicateStarted ==
    /\ Len(dupCalls') = Len(dupCalls) + 1
    /\ lastOp'.op = "duplicate"

\* The step is the continuation of a duplication that got its id
DuplicateSucceeded ==
    /\ Len(dupCalls') < Len(dupCalls)
    /\ lastOp'.op = "duplicated"
    /\ lastOp'.uuid # EmptyId

\* v moved into lo..hi
Clamped(v, lo, hi) == IF v < lo THEN lo ELSE IF v > hi THEN hi ELSE v

\* C22: duplicate(sourceId) computes, when it is called, the source's
\* position shifted right by itemSize + offset (150 + 25) and clamped to the
\* container; when it succeeds it appends exactly one entity with that
\* position, the src and prompt the source had when duplicate was called,
\* parentId the source's id, the fresh id, not loading and no placeholder;
\* every entity that was there is unchanged.
C22_DuplicateAppendsCopy ==
    [][ /\ DuplicateStarted =>
              LET call == dupCalls'[Len(dupCalls')]
                  source == images[FindIndex(images, call.sourceImageId)]
              IN  /\ HasId(images, call.sourceImageId)
                  /\ call.sourceImage = source
                  /\ call.position.x = Clamped(source.position.x + 150 + 25,
                                               0, Max(0, ContainerWidth - 150))
                  /\ call.position.y = Clamped(source.position.y,
                                               0, Max(0, EffectiveHeight - 150))
                  /\ UNCHANGED <<images, selectedImageId>>
        /\ DuplicateSucceeded =>
              LET call == lastOp'.call
              IN  /\ Len(images') = Len(images) + 1
                  /\ SubSeq(images', 1, Len(images)) = images
                  /\ ~HasId(images, lastOp'.uuid)
                  /\ images'[Len(images')] = [id |-> lastOp'.uuid,
                                              src |-> call.sourceImage.src,
                                              prompt |-> call.sourceImage.prompt,
                                              position |-> call.position,
                                              parentId |-> call.sourceImageId,
                                              isLoading |-> FALSE,
                                              isPlaceholder |-> FALSE]
      ]_vars

\* A copy has just been appended to the right of its source, at a position
\* that the clamp moved, and the source is still where it was
C22_Witness ==
    /\ lastOp.op = "duplicated"
    /\ Len(images) >= 2
    /\ images[Len(images)].id = lastOp.uuid
    /\ images[Len(images)].position.x < lastOp.call.sourceImage.position.x + 150 + 25
    /\ images[Len(images)].position.x > lastOp.call.sourceImage.position.x
    /\ \E i \in DOMAIN images : images[i] = lastOp.call.sourceImage

\* C23: when a duplication succeeds the copy is the selection and the live
\* and the debounced prompt are the copy's stored prompt; the effect run that
\* follows the duplication starts no regeneration.
C23_DuplicateSelectsCopy ==
    [][ /\ DuplicateSucceeded =>
              /\ selectedImageId' = lastOp'.uuid
              /\ prompt' = images'[Len(images')].prompt
              /\ debouncedPrompt' = images'[Len(images')].prompt
        /\ RegenerationStarted => lastOp.op # "duplicated"
      ]_vars

----------------------------------------------------------------------------
\* Properties of the operations called with a target that cannot be resolved

\* The capability calls for images and ids that are in flight
CapabilityCalls == <<regenCalls, varCalls, dupCalls>>

\* C24: generateVariations with a parent id that is not in the collection,
\* duplicate with a source id that is not in the collection and duplicate
\* whose id generation yields an empty id each show an error and change
\* neither the collection nor the selection; the first two call no
\* capability, the third calls none for images.
C24_UnresolvedTargetNoMutation ==
    [][ /\ (lastOp'.op \in {"variations", "variationsNoParent"}
               /\ ~HasId(images, lastOp'.parentId)) =>
              /\ error' # Null
              /\ UNCHANGED <<images, selectedImageId, CapabilityCalls, nextUuid>>
        /\ (lastOp'.op \in {"duplicate", "duplicateNoSource"}
               /\ ~HasId(images, lastOp'.sourceImageId)) =>
              /\ error' # Null
              /\ UNCHANGED <<images, selectedImageId, CapabilityCalls, nextUuid>>
        /\ (lastOp'.op = "duplicated" /\ lastOp'.uuid = EmptyId) =>
              /\ error' # Null
              /\ UNCHANGED <<images, selectedImageId, regenCalls, varCalls, nextUuid>>
      ]_vars

\* An id request of a duplication has just come back empty, with the source
\* still on the canvas and no error showing before
C24_Witness ==
    /\ lastOp.op = "duplicated"
    /\ lastOp.uuid = EmptyId
    /\ error = "Failed to get image to duplicate."
    /\ HasId(images, lastOp.call.sourceImageId)
    /\ selectedImageId # NoId

\* C29: delete(id) removes the entities with that id and leaves every other
\* entity as it is, in the same order; the selection becomes null when id
\* was selected and is unchanged otherwise.
C29_DeleteAndSelection ==
    [][ lastOp'.op = "delete" =>
            LET id == lastOp'.id
            IN  /\ ~HasId(images', id)
                /\ images' = FilterOut(images, {id})
                /\ \A k \in DOMAIN images :
                      images[k].id # id => \E j \in DOMAIN images' : images'[j] = images[k]
                /\ Len(images') = Len(images) - Cardinality({k \in DOMAIN images : images[k].id = id})
                /\ selectedImageId = id => selectedImageId' = NoId
                /\ selectedImageId # id => selectedImageId' = selectedImageId
      ]_vars

\* An entity that was not the selection has just been deleted and the
\* selected entity is still there
C29_Witness ==
    /\ lastOp.op = "delete"
    /\ lastOp.found
    /\ ~HasId(images, lastOp.id)
    /\ selectedImageId # NoId
    /\ HasId(images, selectedImageId)

----------------------------------------------------------------------------
\* Properties of the grid arrangement

\* The squares of side 150 at positions p and q are disjoint
Disjoint(p, q) ==
    \/ p.x + 150 <= q.x
    \/ q.x + 150 <= p.x
    \/ p.y + 150 <= q.y
    \/ q.y + 150 <= p.y

NoOverlap(imgs) ==
    \A i, j \in DOMAIN imgs : i # j => Disjoint(imgs[i].position, imgs[j].position)

\* The step is a run of arrangeGrid on a collection that is not empty
Arranged == lastOp'.op = "arrange"

\* C25 as stated: after arrangeGrid, for any container width, no two
\* entities overlap, every x lies in [0, containerWidth - 150] and every y
\* is at least 0.
C25_GridWithinContainer ==
    [][ Arranged =>
            /\ NoOverlap(images')
            /\ \A i \in DOMAIN images' :
                  /\ 0 <= images'[i].position.x
                  /\ images'[i].position.x <= ContainerWidth - 150
                  /\ images'[i].position.y >= 0
      ]_vars

\* C25 amended: after arrangeGrid no two entities overlap and every y is at
\* least 0; every x lies in [0, containerWidth - 150] when the container is
\* at least 150 wide, and is 0 when it is narrower.
C25_GridWithinWideContainer ==
    [][ Arranged =>
            /\ NoOverlap(images')
            /\ \A i \in DOMAIN images' :
                  /\ images'[i].position.y >= 0
                  /\ IF ContainerWidth >= 150
                     THEN /\ 0 <= images'[i].position.x
                          /\ images'[i].position.x <= ContainerWidth - 150
                     ELSE images'[i].position.x = 0
      ]_vars

\* Three entities have just been arranged in two columns and two rows
C25_Witness ==
    /\ lastOp.op = "arrange"
    /\ Len(images) = 3
    /\ images[1].position.x < images[2].position.x
    /\ images[1].position.y = images[2].position.y
    /\ images[3].position.y > images[1].position.y
    /\ images[3].position.x = images[1].position.x

\* C26: what arrangeGrid produces is a fixed point of arrangeGrid for the
\* same container width: applied again to the collection it has arranged,
\* it gives every entity the position it has, and a run on a collection that
\* is already arranged for the width changes no entity.
C26_ArrangeIdempotent ==
    [][ Arranged =>
            /\ ArrangedImages(images', lastOp'.width) = images'
            /\ lastOp'.again => images' = images
      ]_vars

\* arrangeGrid has just run on two or more entities that an earlier run had
\* arranged for the same width, in more than one column
C26_Witness ==
    /\ lastOp.op = "arrange"
    /\ lastOp.again
    /\ Len(images) >= 2
    /\ images[1].position.x # images[2].position.x

\* C27: arrangeGrid gives every entity its grid position, clears the
\* selection and changes nothing else of the collection: the number of
\* entities, their order and every field but position are unchanged.  On an
\* empty collection it shows an error and changes neither the collection nor
\* the selection.
C27_ArrangeFrame ==
    [][ /\ lastOp'.op \in {"arrange", "arrangeFailed"} =>
              (lastOp'.op = "arrangeFailed" <=> Len(images) = 0)
        /\ lastOp'.op = "arrange" =>
              /\ Len(images') = Len(images)
              /\ \A i \in DOMAIN images :
                    /\ images'[i] = [images[i] EXCEPT !.position = images'[i].position]
                    /\ images'[i].position = GridPosition(i - 1, ContainerWidth)
              /\ selectedImageId' = NoId
        /\ lastOp'.op = "arrangeFailed" =>
              /\ error' # Null
              /\ UNCHANGED <<images, selectedImageId>>
      ]_vars

\* A collection with a loading entity has just been arranged and the
\* selection cleared
C27_Witness ==
    /\ lastOp.op = "arrange"
    /\ Len(images) >= 2
    /\ selectedImageId = NoId
    /\ \E i \in DOMAIN images : images[i].isLoading
    /\ \E i \in DOMAIN images : images[i].position # CenterPosition

----------------------------------------------------------------------------
\* Properties of the programmatic placements

\* The entities the step places: the initial placeholder, the four
\* placeholders of a generateVariations call, the copy of a duplication, a
\* saved image put on the canvas
Placed ==
    CASE lastOp'.op = "initialPlaceholder" -> {1}
      [] lastOp'.op = "variations" -> (Len(images) + 1)..Len(images')
      [] lastOp'.op = "duplicated" -> (Len(images) + 1)..Len(images')
      [] lastOp'.op = "placeSaved" -> {Len(images')}
      [] OTHER -> {}

\* C28: every position assigned by a programmatic placement lies within
\* [0, containerWidth - 150] x [0, containerHeight - 150] of the container as
\* it is when the position is set, whatever the position of the parent or
\* source, for every container that is at least 150 wide and high.
C28_PlacedWithinContainer ==
    [][ (ContainerWidth' >= 150 /\ ContainerHeight' >= 150) =>
            \A i \in Placed :
                /\ 0 <= images'[i].position.x
                /\ images'[i].position.x <= ContainerWidth' - 150
                /\ 0 <= images'[i].position.y
                /\ images'[i].position.y <= ContainerHeight' - 150
      ]_vars

----------------------------------------------------------------------------
\* Properties of the initial placeholder

\* C30: with zero entities the next step is the effect that inserts the
\* initial placeholder; after it the collection is exactly one entity with
\* the initial id, empty src and prompt, a placeholder, not loading, which is
\* the selection, and the live and the debounced prompt are empty; the
\* collection never holds two entities with the initial placeholder id.
C30_OneInitialPlaceholder ==
    [][ /\ Len(images) = 0 => lastOp'.op = "initialPlaceholder"
        /\ lastOp'.op = "initialPlaceholder" =>
              /\ Len(images) = 0
              /\ Len(images') = 1
              /\ images'[1].id = INITIAL_PLACEHOLDER_ID
              /\ images'[1].src = NoUrl
              /\ images'[1].prompt = ""
              /\ images'[1].isPlaceholder
              /\ ~images'[1].isLoading
              /\ selectedImageId' = INITIAL_PLACEHOLDER_ID
              /\ prompt' = ""
              /\ debouncedPrompt' = ""
        /\ Cardinality({i \in DOMAIN images' : images'[i].id = INITIAL_PLACEHOLDER_ID}) <= 1
      ]_vars

\* The canvas has just been mounted and holds the selected placeholder
C30_Witness ==
    /\ lastOp.op = "initialPlaceholder"
    /\ gestures = 0
    /\ Len(images) = 1
    /\ images[1].id = INITIAL_PLACEHOLDER_ID
    /\ selectedImageId = INITIAL_PLACEHOLDER_ID

----------------------------------------------------------------------------
\* Properties of the saved-image catalog

\* C31: placing a catalog entry leaves exactly one entity with the entry's
\* id in the collection, whether or not one was there before; the entity has
\* the entry's id, src and prompt, is at the centre of the canvas, is neither
\* loading nor a placeholder, and is the selection; the live and the
\* debounced prompt are its prompt; the other entities are unchanged.
C31_PlaceSavedImage ==
    [][ lastOp'.op = "placeSaved" =>
          LET entry == lastOp'.entry
              k == FindIndex(images', entry.id)
          IN  /\ Cardinality({i \in DOMAIN images' : images'[i].id = entry.id}) = 1
              /\ images'[k].src = entry.src
              /\ images'[k].prompt = entry.prompt
              /\ images'[k].position = CenterPosition
              /\ ~images'[k].isLoading
              /\ ~images'[k].isPlaceholder
              /\ selectedImageId' = entry.id
              /\ prompt' = entry.prompt
              /\ debouncedPrompt' = entry.prompt
              /\ FilterOut(images', {entry.id}) = FilterOut(images, {entry.id})
              /\ lastOp'.replaced = HasId(images, entry.id)
              /\ Len(images') = IF lastOp'.replaced THEN Len(images) ELSE Len(images) + 1
      ]_vars

\* An entry was placed whose entity was already on the canvas among others
C31_Witness ==
    /\ lastOp.op = "placeSaved"
    /\ lastOp.replaced
    /\ Len(images) >= 2
    /\ images[Len(images)].id = lastOp.entry.id
    /\ selectedImageId = lastOp.entry.id

\* The step is the completion of a save: saveImageBlob resolved or rejected
SaveCompleted == lastOp'.op \in {"saveReturned", "saveThrew"} /\ Len(saveCalls') < Len(saveCalls)

\* C32: every save that completes, whether saveImageBlob succeeded, reported
\* an error or threw, starts a refresh of the catalog: one more fetch of the
\* saved images is in flight and the catalog is marked loading.
C32_SaveFollowedByRefresh ==
    [][ SaveCompleted =>
          /\ Len(loadCalls') = Len(loadCalls) + 1
          /\ isLoadingSavedImages'
      ]_vars

----------------------------------------------------------------------------
\* Properties of the error message

\* The steps that begin a user-triggered operation, by the name they record
UserOperations ==
    {"select", "deselect", "delete", "save", "duplicate", "variations",
     "arrange", "placeSaved", "regenerate"}

\* C33: an error that is showing is cleared by the step that begins the next
\* user-triggered operation (select, deselect, delete, save, duplicate,
\* generate variations, arrange, place a saved image, a regeneration started
\* by typing), and by no other step.
C33_ErrorClearedByNextOperation ==
    [][ /\ (error # Null /\ lastOp'.op \in UserOperations) => error' = Null
        /\ (error # Null /\ error' = Null) => lastOp'.op \in UserOperations
      ]_vars

----------------------------------------------------------------------------
\* Properties of the writes made after an await

\* The copy handleDuplicateImage would make of the entity as it is now
CopyOf(sourceImage, uuid) ==
    [id |-> uuid,
     src |-> sourceImage.src,
     prompt |-> sourceImage.prompt,
     position |-> clampPositionToBounds(
                     [x |-> sourceImage.position.x + IMAGE_SIZE + DUPLICATION_OFFSET,
                      y |-> sourceImage.position.y],
                     ContainerWidth, EffectiveHeight, IMAGE_SIZE),
     parentId |-> sourceImage.id,
     isLoading |-> FALSE,
     isPlaceholder |-> FALSE]

\* C34: what is written to the collection after an await is computed from
\* the collection as it is when the write is made.  The end of a
\* regeneration changes the entity of the call and leaves every other entity
\* as it is at that time; a duplication whose id has arrived appends the
\* copy of its source as the source is at that time (its src, its prompt,
\* the position next to where it is now) and leaves the others as they are.
C34_WritesFromCurrentCollection ==
    [][ /\ RegenerationEnded =>
              /\ Len(images') = Len(images)
              /\ \A i \in DOMAIN images :
                    IF images[i].id = lastOp'.call.imageId
                    THEN /\ images'[i].position = images[i].position
                         /\ images'[i].parentId = images[i].parentId
                    ELSE images'[i] = images[i]
        /\ DuplicateSucceeded =>
              LET call == lastOp'.call
                  k == FindIndex(images, call.sourceImageId)
              IN  /\ k # 0
                  /\ images' = Append(images, CopyOf(images[k], lastOp'.uuid))
      ]_vars

----------------------------------------------------------------------------
\* Properties of the selection

\* C35: the selected id is null or the id of an entity in the collection.
C35_SelectionOnCanvas ==
    selectedImageId = NoId \/ HasId(images, selectedImageId)

\* C36: while a regeneration is in flight the selection stays the entity
\* being regenerated and no operation other than the user's typing changes
\* the prompt input.
C36_SelectionHeldWhileRegenerating ==
    [][ (regenCalls # <<>> /\ regenCalls' = regenCalls) =>
          /\ selectedImageId' = regenCalls[1].imageId
          /\ lastOp'.op # "type" => prompt' = prompt
      ]_vars

----------------------------------------------------------------------------
\* Properties of the prompt typed during a regeneration

\* The debounced prompt has settled to the non-blank value v, other than the
\* prompt of the regeneration in flight for the selected entity
SettledWhileRegenerating(v) ==
    /\ regenCalls # <<>>
    /\ selectedImageId = regenCalls[1].imageId
    /\ timeoutRef = NoTimer
    /\ prompt = v
    /\ debouncedPrompt = v
    /\ Trim(v) # ""
    /\ regenCalls[1].newPrompt # v

\* A regeneration with the prompt v is in flight
RegeneratingWith(v) ==
    /\ regenCalls # <<>>
    /\ regenCalls[1].newPrompt = v

\* C37: when the debounced prompt has settled to a new non-blank value while
\* a regeneration of the selected entity is in flight, then, unless the user
\* acts again, a regeneration with the new value is eventually started.
C37_LatestPromptRegenerated ==
    \A v \in TypedPrompts : \A g \in 0..MaxGestures :
        (SettledWhileRegenerating(v) /\ gestures = g) ~> (RegeneratingWith(v) \/ gestures # g)

----------------------------------------------------------------------------
\* Properties of the reconciliation of variations

\* The step is the end of a generateVariations call: its results are
\* reconciled or its exception is handled
VariationsSettled ==
    /\ Len(varCalls') < Len(varCalls)
    /\ lastOp'.op \in {"variationsResolved", "variationsThrew"}

\* The number of entities of imgs that have one of the ids
CountIds(imgs, ids) == Cardinality({i \in DOMAIN imgs : imgs[i].id \in ids})

\* C38: the end of a generateVariations call changes or removes no entity
\* other than the four placeholders of that call: at most four entities
\* lose a placeholder id of the call, and the entities that had none of
\* these ids are all still there, unchanged and in the same order.
C38_ReconciliationFrame ==
    [][ VariationsSettled =>
          LET own == PlaceholderIdSet(lastOp'.call)
              minted == IF lastOp'.op = "variationsResolved"
                        THEN {lastOp'.results[i].id : i \in DOMAIN lastOp'.results} \ {EmptyId}
                        ELSE {}
          IN  /\ CountIds(images, own) - CountIds(images', own) <= Len(lastOp'.call.placeholderIds)
              /\ FilterOut(images', own \cup minted) = FilterOut(images, own)
      ]_vars

----------------------------------------------------------------------------
\* Properties of overlapping catalog refreshes

\* C39: when the last refresh in flight resolves and a refresh started after
\* it has already resolved, the catalog keeps what it holds and does not
\* take the result of the refresh started earlier; and the loading flag of
\* the catalog is set as long as a refresh is in flight.
C39_LatestRefreshWins ==
    [][ /\ (lastOp'.op = "loaded" /\ loadCalls' = <<>> /\ lastOp'.superseded) =>
              savedImages' = savedImages
        /\ loadCalls' # <<>> => isLoadingSavedImages'
      ]_vars

====
